---------------------------- MODULE Spec2Model ----------------------------
(***************************************************************************)
(* State-machine model of the HyperLiquid analytics dashboard:             *)
(*   App (src/App.tsx 1-238)            the wallet aggregator and tabs     *)
(*   LivePositions (src/App.tsx 240-608)                                   *)
(*   TradeStatistics (src/TradeStatistics.tsx 1-331)                       *)
(*   TopTraders (src/TradeStatistics.tsx 333-642)                          *)
(*   WhaleDetection (src/TradeStatistics.tsx 644-962)                      *)
(*                                                                         *)
(* One step of the model is one browser event processed to completion: a   *)
(* click handler, a timer callback, or the continuation of an awaited      *)
(* fetch.  Inside one event every closure reads the state of the last      *)
(* render (the unprimed variables); a setState(value) takes effect at the  *)
(* end of the event and a setState(prev => ...) is applied to the pending  *)
(* value, in call order.                                                   *)
(*                                                                         *)
(* App renders exactly one of the four views (App.tsx 128-139), so the     *)
(* model keeps the component state of the mounted view only; the state of  *)
(* a view is created on mount and discarded on unmount.                    *)
(***************************************************************************)
EXTENDS Integers, Sequences, FiniteSets, TLC

(* ------------------------------ bounds -------------------------------- *)

\* longest list a Data Provider query returns
MaxLen == 2

\* most fetches of the mounted view that are in flight at once
MaxPending == 2

(* --------------------------- value universes --------------------------- *)

\* wallet addresses the provider may return: two casings of one address
\* and one other address
Addresses == {"0xAB", "0xab", "0xCD"}

\* type Tab (App.tsx 8)
Tabs == {"traders", "whales", "statistics", "live"}

\* the source label each view's onSelectWallet is wired with
SourceOf(tab) ==
  CASE tab = "traders"    -> "Top Traders"
    [] tab = "whales"     -> "Whale Detection"
    [] tab = "statistics" -> "Trade Statistics"
    [] tab = "live"       -> "Live Positions"

\* String.prototype.toLowerCase on the address universe
toLowerCase(a) ==
  CASE a = "0xAB" -> "0xab"
    [] a = "0xab" -> "0xab"
    [] a = "0xCD" -> "0xcd"

\* all sequences over S of length at most n
SeqsUpTo(S, n) == UNION {[1..k -> S] : k \in 0..n}

\* the values of a sequence
Range(s) == {s[i] : i \in 1..Len(s)}

\* items.map(x => x.address)
AddressesOf(items) == [i \in 1..Len(items) |-> items[i].address]


(* ------------------------- Data Provider values ------------------------ *)

\* a Trader of fetchLeaderboard / a Whale of fetchWhales: the views' selection
\* logic reads the address field only
Trader == [address : Addresses]

\* the lists fetchLeaderboard and fetchWhales may resolve with
TraderLists == SeqsUpTo(Trader, MaxLen)

\* TradeStatistics.tsx 57: the win-rate tab keeps totalTrades >= 10
MinTradesForWinRate == 10

\* TradeStatistics.tsx 50: every statistics tab shows the first 20 rows
TopN == 20

\* what fetchUserTrades(address) resolves with: one wallet with few trades
\* on a large volume, two with enough trades for the win-rate tab, so that
\* the three statistics tabs order the rows differently
TradeStatsOf(address) ==
  CASE address = "0xAB" ->
         [address |-> address, totalTrades |-> 5,  totalVolume |-> 2, winRate |-> 3]
    [] address = "0xab" ->
         [address |-> address, totalTrades |-> 20, totalVolume |-> 1, winRate |-> 1]
    [] address = "0xCD" ->
         [address |-> address, totalTrades |-> 15, totalVolume |-> 3, winRate |-> 2]

\* the LivePositions fetchLivePositions may list: one per wallet, one of
\* them closed
LivePosition ==
  { [address |-> "0xAB", status |-> "open"],
    [address |-> "0xab", status |-> "closed"],
    [address |-> "0xCD", status |-> "open"] }

\* the lists fetchLivePositions may resolve with
PositionLists == SeqsUpTo(LivePosition, MaxLen)

\* WhaleDetection.tsx 659 and 763: the default threshold and the largest one
DefaultMinBalance == 500000
LargestMinBalance == 10000000
MinBalances == {DefaultMinBalance, LargestMinBalance}

\* TopTraders.tsx 348-351: the filter controls and their initial values
FilterTypes == {"all", "profitable", "volume"}
SortKeys == {"pnl", "volume", "pnlRatio"}
DefaultMinPnl == 0
DefaultMaxResults == 50

\* TradeStatistics.tsx 485: the smallest value the Max Results input takes
SmallestMaxResults == 1

\* TradeStatistics.tsx 364: the High Volume filter keeps volume > 1000000
HighVolume == 1000000

\* the values typed into the Min PnL and the Max Results inputs
MinPnls == {DefaultMinPnl, 2}
MaxResultsValues == {DefaultMaxResults, SmallestMaxResults}

Filters ==
  [filterType : FilterTypes, sortBy : SortKeys, minPnl : MinPnls,
   maxResults : MaxResultsValues]

DefaultFilters ==
  [filterType |-> "all", sortBy |-> "pnl", minPnl |-> DefaultMinPnl,
   maxResults |-> DefaultMaxResults]

\* the leaderboard figures of a wallet: one wallet without profit, one whose
\* volume is exactly the High Volume threshold, and three different orders
\* under the three sort keys
LeaderboardOf(address) ==
  CASE address = "0xAB" -> [pnl |-> 0, volume |-> 3 * HighVolume, pnlRatio |-> 0]
    [] address = "0xab" -> [pnl |-> 2, volume |-> HighVolume, pnlRatio |-> 1]
    [] address = "0xCD" -> [pnl |-> 1, volume |-> 2 * HighVolume, pnlRatio |-> 2]

\* what fetchUserPositions may resolve with: no position, or one
UserPositions == {<<>>, <<"BTC">>}

\* expandedWhale when no card is expanded
NoWhale == "null"

\* readings of Date.now() / new Date()
MaxClock == 1
Times == 1..MaxClock

\* lastUpdate of a view that has none
NoTime == "none"

(* -------------------------------- state -------------------------------- *)

VARIABLES
  activeTab,        \* App: which view is mounted
  selectedWallets,  \* App: the aggregate list of {address, source}
  traders,          \* TopTraders: the displayed list
  whales,           \* WhaleDetection: the displayed list
  minBalance,       \* WhaleDetection: the threshold select
  tradeStats,       \* TradeStatistics: the Map, as its values in insertion order
  statsTab,         \* TradeStatistics: activeTab
  positions,        \* LivePositions: the fetched positions
  liveTab,          \* LivePositions: activeTab
  autoRefresh,      \* LivePositions: the auto-refresh checkbox
  intervals,        \* LivePositions: setInterval timers not yet cleared
  lastUpdate,       \* LivePositions: time of the last successful load
  filters,          \* TopTraders: filterType, sortBy, minPnl, maxResults
  fetched,          \* TopTraders: the leaderboard the last successful fetch
                    \* resolved with, before it was filtered
  expandedWhale,    \* WhaleDetection: the expanded card
  whalePositions,   \* WhaleDetection: the Record, as its {address, positions}
  loadingPositions, \* WhaleDetection: addresses whose positions are loading
  positionFetches,  \* WhaleDetection: per address, fetchUserPositions calls
                    \* that have not settled
  selected,         \* mounted view: selectedTraders / selectedWhales
  loading,          \* mounted view: loading
  error,            \* mounted view: error (TopTraders, WhaleDetection)
  pending,          \* mounted view: the loads awaiting their fetch, oldest
                    \* first; each with whether a load started after it has
                    \* settled already
  frames,           \* mounted view: for each load of `pending`, the state
                    \* its closure read and its local variables
  lastOp,           \* the handler the last event ran, with its argument
  notified,         \* the onSelectWallet calls of the last event, in order
  download,         \* the file the last event handed to the browser
  toggleParity,     \* per address: toggles since mount, modulo 2
  onlyToggles       \* the selection set was changed by toggles only since mount

vars == << activeTab, selectedWallets, traders, whales, minBalance, tradeStats,
           statsTab, positions, liveTab, autoRefresh, intervals, lastUpdate,
           filters, fetched, expandedWhale, whalePositions, loadingPositions,
           positionFetches, selected, loading, error, pending, frames, lastOp,
           notified, download, toggleParity, onlyToggles >>

appVars == << activeTab, selectedWallets >>
whaleVars == << expandedWhale, whalePositions, loadingPositions, positionFetches >>
dataVars == << traders, whales, minBalance, tradeStats, statsTab, positions,
               liveTab, autoRefresh, intervals, lastUpdate, filters, fetched,
               whaleVars >>
loadVars == << loading, error, pending, frames >>
selVars == << selected, toggleParity, onlyToggles >>

NoError == "null"
NoFile == [filename |-> "", mimeType |-> "", content |-> ""]
NoParity == [a \in Addresses |-> 0]
NoFetches == [a \in Addresses |-> 0]

\* the handler of the last event and its argument; for the continuation of
\* an awaited fetch also the value the continuation holds (what the load
\* made of the value its fetch resolved with) and whether a load started
\* later has settled before it
Op(name, arg) == [op |-> name, arg |-> arg, stale |-> FALSE, result |-> <<>>]

\* an event that calls no onSelectWallet and starts no download
Quiet(name, arg) ==
  /\ lastOp' = Op(name, arg)
  /\ notified' = <<>>
  /\ download' = NoFile

(* ------------------------ App: wallet aggregator ----------------------- *)

\* selectedWallets.find(w => w.address.toLowerCase() === address.toLowerCase())
HasWallet(wallets, address) ==
  \E i \in 1..Len(wallets) :
    toLowerCase(wallets[i].address) = toLowerCase(address)

\* an updater that puts the new entry first: prev => [{address, source}, ...prev]
handleSelectWallet_Prepend(rendered, queued, address, source) ==
  IF \E i \in 1..Len(rendered) :
       toLowerCase(rendered[i].address) = toLowerCase(address)
    THEN queued
    ELSE <<[address |-> address, source |-> source]>> \o queued

\* One call of handleSelectWallet.  `rendered` is the selectedWallets the
\* closure was created with, `queued` the value the earlier updaters of the
\* same event have produced: the test reads the former, the updater
\* prev => [...prev, {address, source}] extends the latter.
handleSelectWallet(rendered, queued, address, source) ==
  IF HasWallet(rendered, address)
    THEN queued
    ELSE Append(queued, [address |-> address, source |-> source])

\* the onSelectWallet calls of one event, in call order
RECURSIVE SelectWallets(_, _, _, _)
SelectWallets(rendered, queued, addresses, source) ==
  IF addresses = <<>> THEN queued
  ELSE SelectWallets(rendered,
                     handleSelectWallet(rendered, queued, Head(addresses), source),
                     Tail(addresses), source)

\* a filter that compares the addresses as written
RemoveMatching_CaseSensitive(wallets, address) ==
  LET Keep(w) == w.address # address
  IN  SelectSeq(wallets, Keep)

\* prev.filter(w => w.address.toLowerCase() !== address.toLowerCase())
RemoveMatching(wallets, address) ==
  LET Keep(w) == toLowerCase(w.address) # toLowerCase(address)
  IN  SelectSeq(wallets, Keep)

\* a view calls onSelectWallet for each of `addresses`; App's wiring adds the
\* label of the mounted view
Notify(name, arg, addresses) ==
  /\ lastOp' = Op(name, arg)
  /\ notified' = addresses
  /\ download' = NoFile
  /\ selectedWallets' =
       SelectWallets(selectedWallets, selectedWallets, addresses, SourceOf(activeTab))
  /\ UNCHANGED activeTab

(* ------------------------- export file contents ------------------------ *)

\* Array.prototype.join
RECURSIVE Join(_, _)
Join(strings, sep) ==
  IF strings = <<>> THEN ""
  ELSE IF Len(strings) = 1 THEN Head(strings)
  ELSE Head(strings) \o sep \o Join(Tail(strings), sep)

\* Date.prototype.toISOString of a clock reading
toISOString(t) == "T" \o ToString(t)

\* an entry serialised with a third field
JsonOfWallet_WithTimestamp(w) ==
  "  {\n    \"address\": \"" \o w.address \o "\",\n    \"source\": \""
    \o w.source \o "\",\n    \"selectedAt\": \"" \o toISOString(1) \o "\"\n  }"

\* JSON.stringify(selectedWallets, null, 2)
JsonOfWallet(w) ==
  "  {\n    \"address\": \"" \o w.address \o "\",\n    \"source\": \""
    \o w.source \o "\"\n  }"
JsonOf(wallets) ==
  IF wallets = <<>> THEN "[]"
  ELSE "[\n" \o Join([i \in 1..Len(wallets) |-> JsonOfWallet(wallets[i])], ",\n")
         \o "\n]"

\* the csv text: the header, then one line per wallet, each with its own clock
\* reading
CsvOf(wallets, times) ==
  "Address,Source,Selected At\n" \o
  Join([i \in 1..Len(wallets) |->
          wallets[i].address \o "," \o wallets[i].source \o ","
            \o toISOString(times[i]) \o "\n"], "")

\* a txt text that ends every line, the last one too
TxtOf_TrailingNewline(wallets) == Join(AddressesOf(wallets), "\n") \o "\n"

\* the txt text
TxtOf(wallets) == Join(AddressesOf(wallets), "\n")

\* clock readings taken in order never decrease
Ascending(times) == \A i \in 1..Len(times) - 1 : times[i] <= times[i + 1]

\* the files saveWalletsToFile(format) may hand to the browser
FilesOf(wallets, format) ==
  IF format = "json" THEN
    { [filename |-> "hyperliquid_wallets_" \o ToString(now) \o ".json",
       mimeType |-> "application/json",
       content  |-> JsonOf(wallets)] : now \in Times }
  ELSE IF format = "csv" THEN
    { [filename |-> "hyperliquid_wallets_" \o ToString(ts[Len(ts)]) \o ".csv",
       mimeType |-> "text/csv",
       content  |-> CsvOf(wallets, ts)] :
         ts \in {t \in [1..Len(wallets) + 1 -> Times] : Ascending(t)} }
  ELSE
    { [filename |-> "wallet_addresses_" \o ToString(now) \o ".txt",
       mimeType |-> "text/plain",
       content  |-> TxtOf(wallets)] : now \in Times }

\* saveWalletsToFile without its early return
SavedFiles_NoGuard(wallets, format) == FilesOf(wallets, format)

\* saveWalletsToFile: the files the call may download; none on an empty list
SavedFiles(wallets, format) ==
  IF Len(wallets) = 0 THEN {NoFile} ELSE FilesOf(wallets, format)

(* ---------------------- derived lists of the views --------------------- *)

\* the field a statistics tab sorts by
SortKey(row, tab) ==
  CASE tab = "mostTrades"    -> row.totalTrades
    [] tab = "highestVolume" -> row.totalVolume
    [] tab = "bestWinRate"   -> row.winRate

\* Array.prototype.sort with (a, b) => b.key - a.key: descending and stable
RECURSIVE InsertDesc(_, _, _)
InsertDesc(sorted, row, tab) ==
  IF sorted = <<>> THEN <<row>>
  ELSE IF SortKey(Head(sorted), tab) >= SortKey(row, tab)
         THEN <<Head(sorted)>> \o InsertDesc(Tail(sorted), row, tab)
         ELSE <<row>> \o sorted

RECURSIVE SortDesc(_, _)
SortDesc(rows, tab) ==
  IF rows = <<>> THEN <<>>
  ELSE InsertDesc(SortDesc(SubSeq(rows, 1, Len(rows) - 1), tab), rows[Len(rows)], tab)

\* Array.prototype.slice(0, n)
Slice(rows, n) == SubSeq(rows, 1, IF Len(rows) < n THEN Len(rows) ELSE n)

\* the field the Sort By select names
TraderKey(t, sortBy) ==
  CASE sortBy = "pnl"      -> LeaderboardOf(t.address).pnl
    [] sortBy = "volume"   -> LeaderboardOf(t.address).volume
    [] sortBy = "pnlRatio" -> LeaderboardOf(t.address).pnlRatio

\* [...filtered].sort((a, b) => b.key - a.key): descending and stable
RECURSIVE InsertTrader(_, _, _)
InsertTrader(sorted, t, sortBy) ==
  IF sorted = <<>> THEN <<t>>
  ELSE IF TraderKey(Head(sorted), sortBy) >= TraderKey(t, sortBy)
         THEN <<Head(sorted)>> \o InsertTrader(Tail(sorted), t, sortBy)
         ELSE <<t>> \o sorted

RECURSIVE SortTraders(_, _)
SortTraders(rows, sortBy) ==
  IF rows = <<>> THEN <<>>
  ELSE InsertTrader(SortTraders(SubSeq(rows, 1, Len(rows) - 1), sortBy),
                    rows[Len(rows)], sortBy)

\* loadTraders, TradeStatistics.tsx 358-373: what setTraders is called with,
\* from the fetched leaderboard and the filter state the closure read
FilteredTraders(data, f) ==
  LET OfType(t) ==
        IF f.filterType = "profitable" THEN LeaderboardOf(t.address).pnl > 0
        ELSE IF f.filterType = "volume"
               THEN LeaderboardOf(t.address).volume > HighVolume
               ELSE TRUE
      AboveMinPnl(t) == LeaderboardOf(t.address).pnl >= f.minPnl
  IN  Slice(SortTraders(SelectSeq(SelectSeq(data, OfType), AboveMinPnl),
                        f.sortBy), f.maxResults)

\* TradeStatistics.getCurrentData
getCurrentData(stats, tab) ==
  LET EnoughTrades(row) == row.totalTrades >= MinTradesForWinRate
  IN  IF tab = "bestWinRate"
        THEN Slice(SortDesc(SelectSeq(stats, EnoughTrades), tab), TopN)
        ELSE Slice(SortDesc(stats, tab), TopN)

\* statsMap.set(address, {...stats, trader}): a known key keeps its place
MapSet(map, row) ==
  IF \E i \in 1..Len(map) : map[i].address = row.address
    THEN [i \in 1..Len(map) |->
            IF map[i].address = row.address THEN row ELSE map[i]]
    ELSE Append(map, row)

\* TradeStatistics.tsx 32: the first 30 leaderboard addresses get their stats
StatsFetched == 30

\* the map loadData builds: one fetchUserTrades per address, in order
RECURSIVE StatsMapsFrom(_, _)
StatsMapsFrom(addresses, map) ==
  IF addresses = <<>> THEN map
  ELSE StatsMapsFrom(Tail(addresses), MapSet(map, TradeStatsOf(Head(addresses))))

\* every map a successful loadData may store
StatsMaps ==
  { StatsMapsFrom(AddressesOf(Slice(leaderboard, StatsFetched)), <<>>) :
            leaderboard \in TraderLists }

\* LivePositions.filteredPositions
filteredPositions(all, tab) ==
  LET Shown(pos) == IF tab = "open" THEN pos.status = "open"
                    ELSE IF tab = "closed" THEN pos.status = "closed"
                    ELSE TRUE
  IN  SelectSeq(all, Shown)

\* LivePositions.walletsWithPositions: the wallets that have a row.  The
\* provider lists fewer wallets than the 20 the view renders, so every wallet
\* of the filtered positions has a checkbox.
WalletRows(all, tab) == Range(AddressesOf(filteredPositions(all, tab)))

\* the addresses whose select checkbox the mounted view renders
Rendered ==
  IF loading THEN {}
  ELSE CASE activeTab = "traders"    -> Range(AddressesOf(traders))
         [] activeTab = "whales"     -> Range(AddressesOf(whales))
         [] activeTab = "statistics" ->
              Range(AddressesOf(getCurrentData(tradeStats, statsTab)))
         [] activeTab = "live"       -> WalletRows(positions, liveTab)

(* ------------------------- selection operations ------------------------ *)

\* a toggle that never deletes
Toggled_NeverRemoves(sel, address) == sel \cup {address}

\* toggleSelectTrader / toggleSelectWhale: the new selection set
Toggled(sel, address) ==
  IF address \in sel THEN sel \ {address} ELSE sel \cup {address}

\* a toggle that calls onSelectWallet in both branches
ToggleCalls_Always(sel, address) == <<address>>

\* toggleSelectTrader / toggleSelectWhale: the onSelectWallet calls
ToggleCalls(sel, address) ==
  IF address \in sel THEN <<>> ELSE <<address>>

\* TopTraders.selectAll, WhaleDetection.selectAll: the new selection set
SelectAllSet(sel, items) == Range(AddressesOf(items))

\* a selectAllVisible that starts from an empty set, as TopTraders.selectAll does
SelectAllVisibleSet_Replace(sel, items) == Range(AddressesOf(items))

\* TradeStatistics.selectAllVisible: the new selection set
SelectAllVisibleSet(sel, items) == sel \cup Range(AddressesOf(items))

\* a select-all that calls onSelectWallet for the addresses it adds only
RECURSIVE NewAddresses(_, _)
NewAddresses(sel, addresses) ==
  IF addresses = <<>> THEN <<>>
  ELSE IF Head(addresses) \in sel
         THEN NewAddresses(sel, Tail(addresses))
         ELSE <<Head(addresses)>>
                \o NewAddresses(sel \cup {Head(addresses)}, Tail(addresses))

SelectAllCalls_OnlyNew(sel, items) == NewAddresses(sel, AddressesOf(items))

\* select-all of every view: the onSelectWallet calls
SelectAllCalls(sel, items) == AddressesOf(items)

\* a deselectAll that copies the current set
DeselectAllSet_Copy(sel) == sel

\* TopTraders.deselectAll, WhaleDetection.deselectAll: the new selection set
DeselectAllSet(sel) == {}

\* a toggle that takes the wallet off the aggregate list when it unchecks
ToggleSelect_RemovesOnOff(name, address) ==
  /\ address \in Rendered
  /\ selected' = Toggled(selected, address)
  /\ toggleParity' = IF onlyToggles
                       THEN [toggleParity EXCEPT ![address] = 1 - @]
                       ELSE toggleParity
  /\ UNCHANGED onlyToggles
  /\ lastOp' = Op(name, address)
  /\ notified' = ToggleCalls(selected, address)
  /\ download' = NoFile
  /\ selectedWallets' =
       IF address \in selected
         THEN RemoveMatching(selectedWallets, address)
         ELSE SelectWallets(selectedWallets, selectedWallets,
                            ToggleCalls(selected, address), SourceOf(activeTab))
  /\ UNCHANGED << activeTab, dataVars, loadVars >>

\* a click on the select checkbox of a rendered row
ToggleSelect(name, address) ==
  /\ address \in Rendered
  /\ selected' = Toggled(selected, address)
  /\ toggleParity' = IF onlyToggles
                       THEN [toggleParity EXCEPT ![address] = 1 - @]
                       ELSE toggleParity
  /\ UNCHANGED onlyToggles
  /\ Notify(name, address, ToggleCalls(selected, address))
  /\ UNCHANGED << dataVars, loadVars >>

\* a set-wide change of the selection ends the toggle-only history
SetSelection(sel) ==
  /\ selected' = sel
  /\ toggleParity' = NoParity
  /\ onlyToggles' = FALSE

(* --------------------------- mounting a view --------------------------- *)

\* an effect that returns no cleanup: no timer is ever cleared
IntervalsAfter_NoCleanup(n, had, wants) == n + (IF wants THEN 1 ELSE 0)

\* LivePositions, the effect on [autoRefresh, loadPositions] (App.tsx 280-288):
\* React runs the cleanup of the effect's last run, which clears the timer
\* that run set (`had`), when autoRefresh changes and when the view is
\* unmounted; the effect's next run sets a timer when autoRefresh is checked
\* in a mounted view (`wants`)
IntervalsAfter(n, had, wants) ==
  (IF had THEN n - 1 ELSE n) + (IF wants THEN 1 ELSE 0)

\* what a load that has just been started holds: the filter state and the
\* threshold of the render whose closure it is, and its local variables
\* (loadData: addressesToFetch and statsMap) before its first await
Frame(f, threshold) ==
  [filters |-> f, minBalance |-> threshold, awaits |-> 0,
   addressesToFetch |-> <<>>, statsMap |-> <<>>]

\* a view without its mount effect
MountEffectLoads_None == <<>>

\* useEffect(() => { load(); }, [...]): the one load every view starts when
\* it is mounted
MountEffectLoads == <<FALSE>>

\* the useState initial values of the view and its mount effect, which starts
\* the first load
Mounted(tab) ==
  /\ activeTab = tab
  /\ traders = <<>>
  /\ whales = <<>>
  /\ minBalance = DefaultMinBalance
  /\ tradeStats = <<>>
  /\ statsTab = "mostTrades"
  /\ positions = <<>>
  /\ liveTab = "all"
  /\ autoRefresh = TRUE
  /\ intervals = IntervalsAfter(0, FALSE, tab = "live")
  /\ lastUpdate \in (IF tab = "live" THEN Times ELSE {NoTime})
  /\ filters = DefaultFilters
  /\ fetched = <<>>
  /\ expandedWhale = NoWhale
  /\ whalePositions = {}
  /\ loadingPositions = {}
  /\ positionFetches = NoFetches
  /\ selected = {}
  /\ loading = TRUE
  /\ error = NoError
  /\ pending = MountEffectLoads
  /\ frames = [i \in 1..Len(MountEffectLoads) |->
                 Frame(DefaultFilters, DefaultMinBalance)]
  /\ toggleParity = NoParity
  /\ onlyToggles = TRUE

\* the same values, as the state after the event that mounts the view
Mount(tab) ==
  /\ activeTab' = tab
  /\ traders' = <<>>
  /\ whales' = <<>>
  /\ minBalance' = DefaultMinBalance
  /\ tradeStats' = <<>>
  /\ statsTab' = "mostTrades"
  /\ positions' = <<>>
  /\ liveTab' = "all"
  /\ autoRefresh' = TRUE
  /\ intervals' = IntervalsAfter(intervals, activeTab = "live" /\ autoRefresh,
                               tab = "live")
  /\ lastUpdate' \in (IF tab = "live" THEN Times ELSE {NoTime})
  /\ filters' = DefaultFilters
  /\ fetched' = <<>>
  /\ expandedWhale' = NoWhale
  /\ whalePositions' = {}
  /\ loadingPositions' = {}
  /\ positionFetches' = NoFetches
  /\ selected' = {}
  /\ loading' = TRUE
  /\ error' = NoError
  /\ pending' = MountEffectLoads
  /\ frames' = [i \in 1..Len(MountEffectLoads) |->
                  Frame(DefaultFilters, DefaultMinBalance)]
  /\ toggleParity' = NoParity
  /\ onlyToggles' = TRUE

Init ==
  /\ Mounted("traders")
  /\ selectedWallets = <<>>
  /\ lastOp = Op("mount", "traders")
  /\ notified = <<>>
  /\ download = NoFile

\* a tab button of an App that holds the selection set above the views
SetActiveTab_KeepsSelection(tab) ==
  /\ tab # activeTab
  /\ activeTab' = tab
  /\ traders' = <<>>
  /\ whales' = <<>>
  /\ minBalance' = DefaultMinBalance
  /\ tradeStats' = <<>>
  /\ statsTab' = "mostTrades"
  /\ positions' = <<>>
  /\ liveTab' = "all"
  /\ autoRefresh' = TRUE
  /\ intervals' = IntervalsAfter(intervals, activeTab = "live" /\ autoRefresh,
                               tab = "live")
  /\ lastUpdate' \in (IF tab = "live" THEN Times ELSE {NoTime})
  /\ filters' = DefaultFilters
  /\ fetched' = <<>>
  /\ expandedWhale' = NoWhale
  /\ whalePositions' = {}
  /\ loadingPositions' = {}
  /\ positionFetches' = NoFetches
  /\ selected' = selected
  /\ loading' = TRUE
  /\ error' = NoError
  /\ pending' = MountEffectLoads
  /\ frames' = [i \in 1..Len(MountEffectLoads) |->
                  Frame(DefaultFilters, DefaultMinBalance)]
  /\ toggleParity' = NoParity
  /\ onlyToggles' = TRUE
  /\ Quiet("mount", tab)
  /\ UNCHANGED selectedWallets

\* App.tsx 110: a tab button; the old view is unmounted, the new one mounted
SetActiveTab(tab) ==
  /\ tab # activeTab
  /\ Mount(tab)
  /\ Quiet("mount", tab)
  /\ UNCHANGED selectedWallets

(* -------------------------------- loads -------------------------------- *)

\* a load that raises loading and returns before its fetch
StartLoadFrom_NoFetch(f, threshold) ==
  /\ Len(pending) < MaxPending
  /\ loading' = TRUE
  /\ error' = NoError
  /\ UNCHANGED << pending, frames >>

\* the synchronous head of loadTraders / loadWhales / loadData / loadPositions,
\* called from the render that holds the filter state f and the threshold
StartLoadFrom(f, threshold) ==
  /\ Len(pending) < MaxPending
  /\ pending' = Append(pending, FALSE)
  /\ frames' = Append(frames, Frame(f, threshold))
  /\ loading' = TRUE
  /\ error' = NoError

\* a load started by a handler of the last render
StartLoad == StartLoadFrom(filters, minBalance)

\* a sequence without its k-th element
Without(s, k) == [i \in 1..Len(s) - 1 |-> IF i < k THEN s[i] ELSE s[i + 1]]

\* the loads still in flight once the k-th oldest has settled: the loads
\* started before it have now been overtaken
Settled(loads, k) ==
  [i \in 1..Len(loads) - 1 |-> IF i < k THEN TRUE ELSE loads[i + 1]]

\* the continuation of an awaited fetch runs: the fetch resolved with `value`,
\* or it rejected and there is none
NoResult == <<>>

Resume(name, stale, value) ==
  /\ lastOp' = [Op(name, "") EXCEPT !.stale = stale, !.result = value]
  /\ notified' = <<>>
  /\ download' = NoFile

\* the same for a load of several awaits, with the fetch that has settled
ResumeAfter(name, fetch, stale, value) ==
  /\ lastOp' = [Op(name, fetch) EXCEPT !.stale = stale, !.result = value]
  /\ notified' = <<>>
  /\ download' = NoFile

\* a load whose catch block leaves without clearing loading
EndLoad_NoFinally(k, err) ==
  /\ k \in 1..Len(pending)
  /\ pending' = Settled(pending, k)
  /\ frames' = Without(frames, k)
  /\ loading' = IF err = error THEN FALSE ELSE loading
  /\ error' = err

\* the tail of the k-th oldest load, whose fetch settled:
\* finally { setLoading(false) }
EndLoad(k, err) ==
  /\ k \in 1..Len(pending)
  /\ pending' = Settled(pending, k)
  /\ frames' = Without(frames, k)
  /\ loading' = FALSE
  /\ error' = err

\* a load that ignores the value of a stale fetch
StoredResult_LatestOnly(stale, old, value) == IF stale THEN old ELSE value

\* setTraders(...) / setWhales(data) / setTradeStats(statsMap) /
\* setPositions(livePositions): every load stores the value its fetch
\* resolved with; no load compares itself with the loads started after it
StoredResult(stale, old, value) == value

\* TopTraders: the Refresh button, disabled while loading
TopTraders_loadTraders ==
  /\ activeTab = "traders"
  /\ ~loading
  /\ StartLoad
  /\ Quiet("loadTraders", "Refresh")
  /\ UNCHANGED << appVars, dataVars, selVars >>

\* TopTraders: the Apply Filters button, which has no disabled attribute
TopTraders_applyFilters ==
  /\ activeTab = "traders"
  /\ StartLoad
  /\ Quiet("loadTraders", "Apply Filters")
  /\ UNCHANGED << appVars, dataVars, selVars >>

\* loadTraders after fetchLeaderboard resolved: the leaderboard is filtered,
\* sorted and truncated under the filter state the closure read, and stored
TopTraders_loadTraders_resolved ==
  /\ activeTab = "traders"
  /\ \E k \in 1..Len(pending), data \in TraderLists :
       /\ EndLoad(k, error)
       /\ traders' = StoredResult(pending[k], traders,
                                  FilteredTraders(data, frames[k].filters))
       /\ fetched' = data
       /\ Resume("loadTraders.resolved", pending[k],
                 FilteredTraders(data, frames[k].filters))
  /\ UNCHANGED << appVars, whales, minBalance, tradeStats, statsTab, positions,
                  liveTab, autoRefresh, intervals, lastUpdate, filters,
                  whaleVars, selVars >>

\* a Filter Type select that filters the fetched leaderboard again
TopTraders_setFilterType_Recomputes(value) ==
  /\ activeTab = "traders"
  /\ value # filters.filterType
  /\ filters' = [filters EXCEPT !.filterType = value]
  /\ traders' = FilteredTraders(fetched, filters')
  /\ Quiet("setFilterType", "")
  /\ UNCHANGED << appVars, whales, minBalance, tradeStats, statsTab, positions,
                  liveTab, autoRefresh, intervals, lastUpdate, fetched,
                  whaleVars, loadVars, selVars >>

\* TopTraders: the four filter controls (TradeStatistics.tsx 446-488); each
\* onChange sets its own state and nothing else
TopTraders_setFilterType(value) ==
  /\ activeTab = "traders"
  /\ value # filters.filterType
  /\ filters' = [filters EXCEPT !.filterType = value]
  /\ Quiet("setFilterType", "")
  /\ UNCHANGED << appVars, traders, whales, minBalance, tradeStats, statsTab,
                  positions, liveTab, autoRefresh, intervals, lastUpdate, fetched,
                  whaleVars, loadVars, selVars >>

TopTraders_setSortBy(value) ==
  /\ activeTab = "traders"
  /\ value # filters.sortBy
  /\ filters' = [filters EXCEPT !.sortBy = value]
  /\ Quiet("setSortBy", "")
  /\ UNCHANGED << appVars, traders, whales, minBalance, tradeStats, statsTab,
                  positions, liveTab, autoRefresh, intervals, lastUpdate, fetched,
                  whaleVars, loadVars, selVars >>

TopTraders_setMinPnl(value) ==
  /\ activeTab = "traders"
  /\ value # filters.minPnl
  /\ filters' = [filters EXCEPT !.minPnl = value]
  /\ Quiet("setMinPnl", "")
  /\ UNCHANGED << appVars, traders, whales, minBalance, tradeStats, statsTab,
                  positions, liveTab, autoRefresh, intervals, lastUpdate, fetched,
                  whaleVars, loadVars, selVars >>

TopTraders_setMaxResults(value) ==
  /\ activeTab = "traders"
  /\ value # filters.maxResults
  /\ filters' = [filters EXCEPT !.maxResults = value]
  /\ Quiet("setMaxResults", "")
  /\ UNCHANGED << appVars, traders, whales, minBalance, tradeStats, statsTab,
                  positions, liveTab, autoRefresh, intervals, lastUpdate, fetched,
                  whaleVars, loadVars, selVars >>

\* a catch block that also drops the list
TopTraders_loadTraders_rejected_ClearsData ==
  /\ activeTab = "traders"
  /\ \E k \in 1..Len(pending) :
       /\ EndLoad(k, "Error loading traders data")
       /\ Resume("loadTraders.rejected", pending[k], NoResult)
  /\ traders' = <<>>
  /\ UNCHANGED << appVars, whales, minBalance, tradeStats, statsTab, positions,
                  liveTab, autoRefresh, intervals, lastUpdate, filters, fetched,
                  whaleVars, selVars >>

\* loadTraders after fetchLeaderboard rejected
TopTraders_loadTraders_rejected ==
  /\ activeTab = "traders"
  /\ \E k \in 1..Len(pending) :
       /\ EndLoad(k, "Error loading traders data")
       /\ Resume("loadTraders.rejected", pending[k], NoResult)
  /\ UNCHANGED << appVars, dataVars, selVars >>

\* a Refresh button without its disabled attribute
WhaleDetection_loadWhales_AlwaysEnabled ==
  /\ activeTab = "whales"
  /\ StartLoad
  /\ Quiet("loadWhales", "Refresh")
  /\ UNCHANGED << appVars, dataVars, selVars >>

\* WhaleDetection: the Refresh button, disabled while loading
WhaleDetection_loadWhales ==
  /\ activeTab = "whales"
  /\ ~loading
  /\ StartLoad
  /\ Quiet("loadWhales", "Refresh")
  /\ UNCHANGED << appVars, dataVars, selVars >>

\* a threshold select whose onChange calls the loadWhales of the render it
\* was clicked in, which still holds the old threshold
WhaleDetection_setMinBalance_StaleClosure(value) ==
  /\ activeTab = "whales"
  /\ value # minBalance
  /\ minBalance' = value
  /\ StartLoadFrom(filters, minBalance)
  /\ Quiet("loadWhales", "minBalance")
  /\ UNCHANGED << appVars, traders, whales, tradeStats, statsTab, positions,
                  liveTab, autoRefresh, intervals, lastUpdate, filters, fetched,
                  whaleVars, selVars >>

\* WhaleDetection: the threshold select; the effect on [minBalance] runs
\* after the render with the new threshold and calls that render's loadWhales
WhaleDetection_setMinBalance(value) ==
  /\ activeTab = "whales"
  /\ value # minBalance
  /\ minBalance' = value
  /\ StartLoadFrom(filters, value)
  /\ Quiet("loadWhales", "minBalance")
  /\ UNCHANGED << appVars, traders, whales, tradeStats, statsTab, positions,
                  liveTab, autoRefresh, intervals, lastUpdate, filters, fetched,
                  whaleVars, selVars >>

WhaleDetection_loadWhales_resolved ==
  /\ activeTab = "whales"
  /\ \E k \in 1..Len(pending), list \in TraderLists :
       /\ EndLoad(k, error)
       /\ whales' = StoredResult(pending[k], whales, list)
       /\ Resume("loadWhales.resolved", pending[k], list)
  /\ UNCHANGED << appVars, traders, minBalance, tradeStats, statsTab, positions,
                  liveTab, autoRefresh, intervals, lastUpdate, filters, fetched,
                  whaleVars, selVars >>

\* a catch block that only logs
WhaleDetection_loadWhales_rejected_Silent ==
  /\ activeTab = "whales"
  /\ \E k \in 1..Len(pending) :
       /\ EndLoad(k, error)
       /\ Resume("loadWhales.rejected", pending[k], NoResult)
  /\ UNCHANGED << appVars, dataVars, selVars >>

\* loadWhales after fetchWhales rejected
WhaleDetection_loadWhales_rejected ==
  /\ activeTab = "whales"
  /\ \E k \in 1..Len(pending) :
       /\ EndLoad(k, "Error loading whale data")
       /\ Resume("loadWhales.rejected", pending[k], NoResult)
  /\ UNCHANGED << appVars, dataVars, selVars >>

\* TradeStatistics: the Refresh button, disabled while loading
TradeStatistics_loadData ==
  /\ activeTab = "statistics"
  /\ ~loading
  /\ StartLoad
  /\ Quiet("loadData", "Refresh")
  /\ UNCHANGED << appVars, dataVars, selVars >>

\* loadData after the leaderboard and every userTrades fetch resolved
TradeStatistics_loadData_resolved ==
  /\ activeTab = "statistics"
  /\ \E k \in 1..Len(pending), map \in StatsMaps :
       /\ EndLoad(k, error)
       /\ tradeStats' = StoredResult(pending[k], tradeStats, map)
       /\ Resume("loadData.resolved", pending[k], map)
  /\ UNCHANGED << appVars, traders, whales, minBalance, statsTab, positions,
                  liveTab, autoRefresh, intervals, lastUpdate, filters, fetched,
                  whaleVars, selVars >>

\* loadData after one of its fetches rejected: the catch only logs
TradeStatistics_loadData_rejected ==
  /\ activeTab = "statistics"
  /\ \E k \in 1..Len(pending) :
       /\ EndLoad(k, error)
       /\ Resume("loadData.rejected", pending[k], NoResult)
  /\ UNCHANGED << appVars, dataVars, selVars >>

\* whalePositions[address] is set: an array, also an empty one, is truthy
HasPositions(record, address) == \E entry \in record : entry.address = address

\* { ...prev, [address]: positions }
WithPositions(record, address, value) ==
  {entry \in record : entry.address # address}
    \cup {[address |-> address, positions |-> value]}

\* loadWhalePositions up to its await: nothing when the positions of the
\* address are stored or loading, else the address is added to
\* loadingPositions and fetchUserPositions(address) is called
LoadWhalePositions(address) ==
  IF HasPositions(whalePositions, address) \/ address \in loadingPositions
    THEN UNCHANGED << loadingPositions, positionFetches >>
    ELSE /\ positionFetches[address] < MaxPending
         /\ loadingPositions' = loadingPositions \cup {address}
         /\ positionFetches' = [positionFetches EXCEPT ![address] = @ + 1]

\* an expand button that asks only whether the positions are stored
WhaleDetection_toggleExpandWhale_NoLoadingGuard(address) ==
  /\ activeTab = "whales"
  /\ address \in Rendered
  /\ IF expandedWhale = address
       THEN /\ expandedWhale' = NoWhale
            /\ UNCHANGED << loadingPositions, positionFetches >>
       ELSE /\ expandedWhale' = address
            /\ IF HasPositions(whalePositions, address)
                 THEN UNCHANGED << loadingPositions, positionFetches >>
                 ELSE /\ positionFetches[address] < MaxPending
                      /\ loadingPositions' = loadingPositions \cup {address}
                      /\ positionFetches' =
                           [positionFetches EXCEPT ![address] = @ + 1]
  /\ Quiet("toggleExpandWhale", address)
  /\ UNCHANGED << appVars, traders, whales, minBalance, tradeStats, statsTab,
                  positions, liveTab, autoRefresh, intervals, lastUpdate, filters,
                  fetched, whalePositions, loadVars, selVars >>

\* WhaleDetection.toggleExpandWhale: the expand button of a whale card
\* collapses the card that is expanded, or expands its card and loads the
\* positions of its address
WhaleDetection_toggleExpandWhale(address) ==
  /\ activeTab = "whales"
  /\ address \in Rendered
  /\ IF expandedWhale = address
       THEN /\ expandedWhale' = NoWhale
            /\ UNCHANGED << loadingPositions, positionFetches >>
       ELSE /\ expandedWhale' = address
            /\ LoadWhalePositions(address)
  /\ Quiet("toggleExpandWhale", address)
  /\ UNCHANGED << appVars, traders, whales, minBalance, tradeStats, statsTab,
                  positions, liveTab, autoRefresh, intervals, lastUpdate, filters,
                  fetched, whalePositions, loadVars, selVars >>

\* loadWhalePositions after fetchUserPositions(address) resolved
WhaleDetection_loadWhalePositions_resolved(address) ==
  /\ activeTab = "whales"
  /\ positionFetches[address] > 0
  /\ \E value \in UserPositions :
       /\ whalePositions' = WithPositions(whalePositions, address, value)
       /\ lastOp' = [Op("loadWhalePositions.resolved", address)
                       EXCEPT !.result = value]
  /\ loadingPositions' = loadingPositions \ {address}
  /\ positionFetches' = [positionFetches EXCEPT ![address] = @ - 1]
  /\ notified' = <<>>
  /\ download' = NoFile
  /\ UNCHANGED << appVars, traders, whales, minBalance, tradeStats, statsTab,
                  positions, liveTab, autoRefresh, intervals, lastUpdate, filters,
                  fetched, expandedWhale, loadVars, selVars >>

\* loadWhalePositions after fetchUserPositions(address) rejected: the catch
\* only logs
WhaleDetection_loadWhalePositions_rejected(address) ==
  /\ activeTab = "whales"
  /\ positionFetches[address] > 0
  /\ loadingPositions' = loadingPositions \ {address}
  /\ positionFetches' = [positionFetches EXCEPT ![address] = @ - 1]
  /\ Quiet("loadWhalePositions.rejected", address)
  /\ UNCHANGED << appVars, traders, whales, minBalance, tradeStats, statsTab,
                  positions, liveTab, autoRefresh, intervals, lastUpdate, filters,
                  fetched, expandedWhale, whalePositions, loadVars, selVars >>

(* loadData and loadPositions await more than one fetch.  The two actions   *)
(* above take such a load from its start to its end in one step, as the     *)
(* awaits in between change local variables only; the actions below take    *)
(* it one await at a time.                                                  *)

\* loadData after fetchLeaderboard(100) resolved: addressesToFetch is set and
\* the first fetchUserTrades is awaited; over an empty leaderboard the loop
\* is skipped and the empty map is stored
TradeStatistics_loadData_leaderboard ==
  /\ activeTab = "statistics"
  /\ \E k \in 1..Len(pending), leaderboardData \in TraderLists :
       LET addressesToFetch == AddressesOf(Slice(leaderboardData, StatsFetched))
       IN  /\ frames[k].awaits = 0
           /\ IF addressesToFetch = <<>>
                THEN /\ EndLoad(k, error)
                     /\ tradeStats' = StoredResult(pending[k], tradeStats, <<>>)
                     /\ ResumeAfter("loadData.resolved", "fetchLeaderboard",
                                    pending[k], <<>>)
                ELSE /\ frames' = [frames EXCEPT ![k] =
                                     [@ EXCEPT !.awaits = 1,
                                               !.addressesToFetch = addressesToFetch]]
                     /\ ResumeAfter("loadData.await", "fetchLeaderboard",
                                    pending[k], <<>>)
                     /\ UNCHANGED << loading, error, pending, tradeStats >>
  /\ UNCHANGED << appVars, traders, whales, minBalance, statsTab, positions,
                  liveTab, autoRefresh, intervals, lastUpdate, filters, fetched,
                  whaleVars, selVars >>

\* a loop that stores the map after every fetch
TradeStatistics_loadData_userTrades_StoresPartial ==
  /\ activeTab = "statistics"
  /\ \E k \in 1..Len(pending) :
       LET f == frames[k]
           statsMap == MapSet(f.statsMap, TradeStatsOf(f.addressesToFetch[f.awaits]))
       IN  /\ f.awaits >= 1
           /\ tradeStats' = StoredResult(pending[k], tradeStats, statsMap)
           /\ IF f.awaits = Len(f.addressesToFetch)
                THEN /\ EndLoad(k, error)
                     /\ ResumeAfter("loadData.resolved", "fetchUserTrades",
                                    pending[k], statsMap)
                ELSE /\ frames' = [frames EXCEPT ![k] =
                                     [@ EXCEPT !.awaits = @ + 1,
                                               !.statsMap = statsMap]]
                     /\ ResumeAfter("loadData.await", "fetchUserTrades",
                                    pending[k], statsMap)
                     /\ UNCHANGED << loading, error, pending >>
  /\ UNCHANGED << appVars, traders, whales, minBalance, statsTab, positions,
                  liveTab, autoRefresh, intervals, lastUpdate, filters, fetched,
                  whaleVars, selVars >>

\* loadData after a fetchUserTrades(address) resolved: statsMap gets the
\* entry of the address; after the last address setTradeStats(statsMap)
TradeStatistics_loadData_userTrades ==
  /\ activeTab = "statistics"
  /\ \E k \in 1..Len(pending) :
       LET f == frames[k]
           statsMap == MapSet(f.statsMap, TradeStatsOf(f.addressesToFetch[f.awaits]))
       IN  /\ f.awaits >= 1
           /\ IF f.awaits = Len(f.addressesToFetch)
                THEN /\ EndLoad(k, error)
                     /\ tradeStats' = StoredResult(pending[k], tradeStats, statsMap)
                     /\ ResumeAfter("loadData.resolved", "fetchUserTrades",
                                    pending[k], statsMap)
                ELSE /\ frames' = [frames EXCEPT ![k] =
                                     [@ EXCEPT !.awaits = @ + 1,
                                               !.statsMap = statsMap]]
                     /\ ResumeAfter("loadData.await", "fetchUserTrades",
                                    pending[k], statsMap)
                     /\ UNCHANGED << loading, error, pending, tradeStats >>
  /\ UNCHANGED << appVars, traders, whales, minBalance, statsTab, positions,
                  liveTab, autoRefresh, intervals, lastUpdate, filters, fetched,
                  whaleVars, selVars >>

\* loadData after fetchLeaderboard rejected: the catch only logs
TradeStatistics_loadData_leaderboard_rejected ==
  /\ activeTab = "statistics"
  /\ \E k \in 1..Len(pending) :
       /\ frames[k].awaits = 0
       /\ EndLoad(k, error)
       /\ ResumeAfter("loadData.rejected", "fetchLeaderboard", pending[k], NoResult)
  /\ UNCHANGED << appVars, dataVars, selVars >>

\* loadData after a fetchUserTrades rejected: the catch only logs, and the
\* statsMap built so far, here the continuation's value, is dropped
TradeStatistics_loadData_userTrades_rejected ==
  /\ activeTab = "statistics"
  /\ \E k \in 1..Len(pending) :
       /\ frames[k].awaits >= 1
       /\ EndLoad(k, error)
       /\ ResumeAfter("loadData.rejected", "fetchUserTrades", pending[k],
                      frames[k].statsMap)
  /\ UNCHANGED << appVars, dataVars, selVars >>

\* TradeStatistics: the three tab buttons
TradeStatistics_setActiveTab(tab) ==
  /\ activeTab = "statistics"
  /\ tab # statsTab
  /\ statsTab' = tab
  /\ Quiet("setStatsTab", tab)
  /\ UNCHANGED << appVars, traders, whales, minBalance, tradeStats, positions,
                  liveTab, autoRefresh, intervals, lastUpdate, filters, fetched,
                  whaleVars, loadVars, selVars >>

\* LivePositions: the Refresh button, disabled while loading
LivePositions_loadPositions ==
  /\ activeTab = "live"
  /\ ~loading
  /\ StartLoad
  /\ Quiet("loadPositions", "Refresh")
  /\ UNCHANGED << appVars, dataVars, selVars >>

\* LivePositions: the callback of a 30 s timer that has not been cleared
LivePositions_interval ==
  /\ activeTab = "live"
  /\ intervals > 0
  /\ StartLoad
  /\ Quiet("loadPositions", "interval")
  /\ UNCHANGED << appVars, dataVars, selVars >>

\* a checkbox that also abandons the loads in flight
LivePositions_setAutoRefresh_Cancels ==
  /\ activeTab = "live"
  /\ autoRefresh' = ~autoRefresh
  /\ intervals' = IntervalsAfter(intervals, autoRefresh, ~autoRefresh)
  /\ pending' = <<>>
  /\ frames' = <<>>
  /\ loading' = FALSE
  /\ Quiet("setAutoRefresh", "")
  /\ UNCHANGED << appVars, traders, whales, minBalance, tradeStats, statsTab,
                  positions, liveTab, lastUpdate, filters, fetched, whaleVars,
                  error, selVars >>

\* LivePositions: the auto-refresh checkbox; the effect on [autoRefresh,
\* loadPositions] runs again
LivePositions_setAutoRefresh ==
  /\ activeTab = "live"
  /\ autoRefresh' = ~autoRefresh
  /\ intervals' = IntervalsAfter(intervals, autoRefresh, ~autoRefresh)
  /\ Quiet("setAutoRefresh", "")
  /\ UNCHANGED << appVars, traders, whales, minBalance, tradeStats, statsTab,
                  positions, liveTab, lastUpdate, filters, fetched, whaleVars,
                  loadVars, selVars >>

\* loadPositions after both of its fetches resolved
LivePositions_loadPositions_resolved ==
  /\ activeTab = "live"
  /\ \E k \in 1..Len(pending), list \in PositionLists :
       /\ EndLoad(k, error)
       /\ positions' = StoredResult(pending[k], positions, list)
       /\ Resume("loadPositions.resolved", pending[k], list)
  /\ \E now \in Times : now >= lastUpdate /\ lastUpdate' = now
  /\ UNCHANGED << appVars, traders, whales, minBalance, tradeStats, statsTab,
                  liveTab, autoRefresh, intervals, filters, fetched, whaleVars,
                  selVars >>

\* loadPositions after one of its fetches rejected: the catch only logs
LivePositions_loadPositions_rejected ==
  /\ activeTab = "live"
  /\ \E k \in 1..Len(pending) :
       /\ EndLoad(k, error)
       /\ Resume("loadPositions.rejected", pending[k], NoResult)
  /\ UNCHANGED << appVars, dataVars, selVars >>

\* loadPositions after fetchLeaderboard(50) resolved: fetchLivePositions is
\* called with the addresses and awaited
LivePositions_loadPositions_leaderboard ==
  /\ activeTab = "live"
  /\ \E k \in 1..Len(pending), leaderboard \in TraderLists :
       /\ frames[k].awaits = 0
       /\ frames' = [frames EXCEPT ![k] =
                       [@ EXCEPT !.awaits = 1,
                                 !.addressesToFetch = AddressesOf(leaderboard)]]
       /\ ResumeAfter("loadPositions.await", "fetchLeaderboard", pending[k], <<>>)
  /\ UNCHANGED << appVars, dataVars, loading, error, pending, selVars >>

\* loadPositions after fetchLivePositions resolved
LivePositions_loadPositions_livePositions ==
  /\ activeTab = "live"
  /\ \E k \in 1..Len(pending), list \in PositionLists :
       /\ frames[k].awaits = 1
       /\ EndLoad(k, error)
       /\ positions' = StoredResult(pending[k], positions, list)
       /\ ResumeAfter("loadPositions.resolved", "fetchLivePositions",
                      pending[k], list)
  /\ \E now \in Times : now >= lastUpdate /\ lastUpdate' = now
  /\ UNCHANGED << appVars, traders, whales, minBalance, tradeStats, statsTab,
                  liveTab, autoRefresh, intervals, filters, fetched, whaleVars,
                  selVars >>

\* a load that goes on to fetchLivePositions, with no address, when
\* fetchLeaderboard rejected
LivePositions_loadPositions_leaderboard_rejected_FetchesAnyway ==
  /\ activeTab = "live"
  /\ \E k \in 1..Len(pending) :
       /\ frames[k].awaits = 0
       /\ frames' = [frames EXCEPT ![k] = [@ EXCEPT !.awaits = 1]]
       /\ ResumeAfter("loadPositions.rejected", "fetchLeaderboard", pending[k],
                      NoResult)
  /\ UNCHANGED << appVars, dataVars, loading, error, pending, selVars >>

\* loadPositions after fetchLeaderboard rejected: the catch only logs, and
\* fetchLivePositions is never called
LivePositions_loadPositions_leaderboard_rejected ==
  /\ activeTab = "live"
  /\ \E k \in 1..Len(pending) :
       /\ frames[k].awaits = 0
       /\ EndLoad(k, error)
       /\ ResumeAfter("loadPositions.rejected", "fetchLeaderboard", pending[k],
                      NoResult)
  /\ UNCHANGED << appVars, dataVars, selVars >>

\* loadPositions after fetchLivePositions rejected: the catch only logs
LivePositions_loadPositions_livePositions_rejected ==
  /\ activeTab = "live"
  /\ \E k \in 1..Len(pending) :
       /\ frames[k].awaits = 1
       /\ EndLoad(k, error)
       /\ ResumeAfter("loadPositions.rejected", "fetchLivePositions", pending[k],
                      NoResult)
  /\ UNCHANGED << appVars, dataVars, selVars >>

\* LivePositions: the three tab buttons
LivePositions_setActiveTab(tab) ==
  /\ activeTab = "live"
  /\ tab # liveTab
  /\ liveTab' = tab
  /\ Quiet("setLiveTab", tab)
  /\ UNCHANGED << appVars, traders, whales, minBalance, tradeStats, statsTab,
                  positions, autoRefresh, intervals, lastUpdate, filters, fetched,
                  whaleVars, loadVars, selVars >>

(* ----------------------- selection event handlers ---------------------- *)

TopTraders_toggleSelectTrader(address) ==
  /\ activeTab = "traders"
  /\ ToggleSelect("toggle", address)

WhaleDetection_toggleSelectWhale(address) ==
  /\ activeTab = "whales"
  /\ ToggleSelect("toggle", address)

TradeStatistics_toggleSelectTrader(address) ==
  /\ activeTab = "statistics"
  /\ ToggleSelect("toggle", address)

LivePositions_toggleSelectTrader(address) ==
  /\ activeTab = "live"
  /\ ToggleSelect("toggle", address)

\* TopTraders.selectAll: the Select All button, rendered in every state
TopTraders_selectAll ==
  /\ activeTab = "traders"
  /\ SetSelection(SelectAllSet(selected, traders))
  /\ Notify("selectAll", "", SelectAllCalls(selected, traders))
  /\ UNCHANGED << dataVars, loadVars >>

\* TopTraders.deselectAll: the Deselect All button
TopTraders_deselectAll ==
  /\ activeTab = "traders"
  /\ SetSelection(DeselectAllSet(selected))
  /\ Quiet("deselectAll", "")
  /\ UNCHANGED << appVars, dataVars, loadVars >>

\* TopTraders: the checkbox of the table header, which is checked when
\* selectedTraders.size === traders.length && traders.length > 0; a click
\* calls selectAll when it becomes checked and deselectAll otherwise
HeaderChecked == Cardinality(selected) = Len(traders) /\ Len(traders) > 0

TopTraders_headerCheckbox ==
  /\ activeTab = "traders"
  /\ IF HeaderChecked
       THEN /\ SetSelection(DeselectAllSet(selected))
            /\ Quiet("deselectAll", "")
            /\ UNCHANGED appVars
       ELSE /\ SetSelection(SelectAllSet(selected, traders))
            /\ Notify("selectAll", "", SelectAllCalls(selected, traders))
  /\ UNCHANGED << dataVars, loadVars >>

\* WhaleDetection.selectAll: the Select All Whales button
WhaleDetection_selectAll ==
  /\ activeTab = "whales"
  /\ SetSelection(SelectAllSet(selected, whales))
  /\ Notify("selectAll", "", SelectAllCalls(selected, whales))
  /\ UNCHANGED << dataVars, loadVars >>

\* WhaleDetection.deselectAll
WhaleDetection_deselectAll ==
  /\ activeTab = "whales"
  /\ SetSelection(DeselectAllSet(selected))
  /\ Quiet("deselectAll", "")
  /\ UNCHANGED << appVars, dataVars, loadVars >>

\* TradeStatistics.selectAllVisible: the Select All Visible button
TradeStatistics_selectAllVisible ==
  /\ activeTab = "statistics"
  /\ LET currentData == getCurrentData(tradeStats, statsTab)
     IN  /\ SetSelection(SelectAllVisibleSet(selected, currentData))
         /\ Notify("selectAll", "", SelectAllCalls(selected, currentData))
  /\ UNCHANGED << dataVars, loadVars >>

(* --------------------------- App event handlers ------------------------ *)
(* The buttons of the wallet panel are rendered while the list is not      *)
(* empty, and each remove button passes the address of its own entry.  The *)
(* handlers are modelled for every argument and every list: the calls this *)
(* adds read the list and change nothing.                                  *)

\* a remove button that also unchecks the wallet in the mounted view
removeWallet_Deselects(address) ==
  /\ selectedWallets' = RemoveMatching(selectedWallets, address)
  /\ selected' = selected \ {address}
  /\ Quiet("removeWallet", address)
  /\ UNCHANGED << activeTab, dataVars, loadVars, toggleParity, onlyToggles >>

removeWallet(address) ==
  /\ selectedWallets' = RemoveMatching(selectedWallets, address)
  /\ Quiet("removeWallet", address)
  /\ UNCHANGED << activeTab, dataVars, loadVars, selVars >>

clearAllWallets ==
  /\ selectedWallets' = <<>>
  /\ Quiet("clearAllWallets", "")
  /\ UNCHANGED << activeTab, dataVars, loadVars, selVars >>

saveWalletsToFile(format) ==
  /\ download' \in SavedFiles(selectedWallets, format)
  /\ lastOp' = Op("saveWalletsToFile", format)
  /\ notified' = <<>>
  /\ UNCHANGED << appVars, dataVars, loadVars, selVars >>

(* ----------------------------- specification --------------------------- *)

Formats == {"txt", "csv", "json"}

\* the loads, the controls and the selection handlers of the four views
ViewEvent ==
  \/ TopTraders_loadTraders
  \/ TopTraders_applyFilters
  \/ TopTraders_loadTraders_resolved
  \/ TopTraders_loadTraders_rejected
  \/ WhaleDetection_loadWhales
  \/ \E value \in MinBalances : WhaleDetection_setMinBalance(value)
  \/ WhaleDetection_loadWhales_resolved
  \/ WhaleDetection_loadWhales_rejected
  \/ TradeStatistics_loadData
  \/ TradeStatistics_loadData_resolved
  \/ TradeStatistics_loadData_rejected
  \/ \E tab \in {"mostTrades", "highestVolume", "bestWinRate"} :
       TradeStatistics_setActiveTab(tab)
  \/ LivePositions_loadPositions
  \/ LivePositions_interval
  \/ LivePositions_setAutoRefresh
  \/ LivePositions_loadPositions_resolved
  \/ LivePositions_loadPositions_rejected
  \/ \E tab \in {"all", "open", "closed"} : LivePositions_setActiveTab(tab)
  \/ \E address \in Addresses : TopTraders_toggleSelectTrader(address)
  \/ \E address \in Addresses : WhaleDetection_toggleSelectWhale(address)
  \/ \E address \in Addresses : TradeStatistics_toggleSelectTrader(address)
  \/ \E address \in Addresses : LivePositions_toggleSelectTrader(address)
  \/ TopTraders_selectAll
  \/ TopTraders_deselectAll
  \/ TopTraders_headerCheckbox
  \/ WhaleDetection_selectAll
  \/ WhaleDetection_deselectAll
  \/ TradeStatistics_selectAllVisible

\* the handlers of the wallet panel
PanelEvent ==
  \/ \E address \in Addresses : removeWallet(address)
  \/ clearAllWallets
  \/ \E format \in Formats : saveWalletsToFile(format)

\* TopTraders: the four filter controls
FilterControl ==
  \/ \E value \in FilterTypes : TopTraders_setFilterType(value)
  \/ \E value \in SortKeys : TopTraders_setSortBy(value)
  \/ \E value \in MinPnls : TopTraders_setMinPnl(value)
  \/ \E value \in MaxResultsValues : TopTraders_setMaxResults(value)

\* WhaleDetection: the expand buttons of the cards and the continuations of
\* the position fetches
CardEvent ==
  \/ \E address \in Addresses : WhaleDetection_toggleExpandWhale(address)
  \/ \E address \in Addresses : WhaleDetection_loadWhalePositions_resolved(address)
  \/ \E address \in Addresses : WhaleDetection_loadWhalePositions_rejected(address)

\* the continuations of loadData and loadPositions, one await at a time
AwaitEvent ==
  \/ TradeStatistics_loadData_leaderboard
  \/ TradeStatistics_loadData_userTrades
  \/ TradeStatistics_loadData_leaderboard_rejected
  \/ TradeStatistics_loadData_userTrades_rejected
  \/ LivePositions_loadPositions_leaderboard
  \/ LivePositions_loadPositions_livePositions
  \/ LivePositions_loadPositions_leaderboard_rejected
  \/ LivePositions_loadPositions_livePositions_rejected

\* the whole program
Next ==
  \/ \E tab \in Tabs : SetActiveTab(tab)
  \/ ViewEvent
  \/ FilterControl
  \/ CardEvent
  \/ AwaitEvent
  \/ PanelEvent

Spec == Init /\ [][Next]_vars

\* One view stays mounted.  Any of the four may be the one: switching to it
\* from the initial state mounts it over an empty wallet list.
InitView ==
  /\ \E tab \in Tabs : Mounted(tab)
  /\ selectedWallets = <<>>
  /\ lastOp = Op("mount", activeTab)
  /\ notified = <<>>
  /\ download = NoFile

SpecView == InitView /\ [][ViewEvent]_vars

\* The wallet panel under tab switches: the mounted view loads once, its
\* controls keep their initial values, and the user selects in it.
SelectEvent ==
  \/ TopTraders_loadTraders_resolved
  \/ WhaleDetection_loadWhales_resolved
  \/ TradeStatistics_loadData_resolved
  \/ LivePositions_loadPositions_resolved
  \/ \E address \in Addresses : TopTraders_toggleSelectTrader(address)
  \/ \E address \in Addresses : WhaleDetection_toggleSelectWhale(address)
  \/ \E address \in Addresses : TradeStatistics_toggleSelectTrader(address)
  \/ \E address \in Addresses : LivePositions_toggleSelectTrader(address)
  \/ TopTraders_selectAll
  \/ TopTraders_deselectAll
  \/ TopTraders_headerCheckbox
  \/ WhaleDetection_selectAll
  \/ WhaleDetection_deselectAll
  \/ TradeStatistics_selectAllVisible

NextApp ==
  \/ \E tab \in Tabs : SetActiveTab(tab)
  \/ SelectEvent
  \/ PanelEvent

SpecApp == Init /\ [][NextApp]_vars

\* The aggregate list under everything a user does to it or next to it: tab
\* switches, selections, the Refresh button of each view and the loads it
\* starts, and the remove and clear buttons of the wallet panel.
RefreshButton ==
  \/ TopTraders_loadTraders
  \/ WhaleDetection_loadWhales
  \/ TradeStatistics_loadData
  \/ LivePositions_loadPositions

NextWallets ==
  \/ \E tab \in Tabs : SetActiveTab(tab)
  \/ SelectEvent
  \/ RefreshButton
  \/ \E address \in Addresses : removeWallet(address)
  \/ clearAllWallets

SpecWallets == Init /\ [][NextWallets]_vars

\* The leaderboard view with its filter controls: the user changes the
\* filters, presses Refresh or Apply Filters, and the fetches settle.  The
\* user of this specification presses Apply Filters between loads, as Refresh
\* can only be pressed; overlapping loads are the subject of SpecLoad.
NextFilter ==
  \/ FilterControl
  \/ TopTraders_loadTraders
  \/ ~loading /\ TopTraders_applyFilters
  \/ TopTraders_loadTraders_resolved
  \/ TopTraders_loadTraders_rejected

SpecFilter == Init /\ [][NextFilter]_vars

\* The two views whose load awaits more than one fetch, one await at a time:
\* the statistics view and the live-positions view, each with the triggers
\* of its loads and every way each of its fetches settles.
InitAwait ==
  /\ \E tab \in {"statistics", "live"} : Mounted(tab)
  /\ selectedWallets = <<>>
  /\ lastOp = Op("mount", activeTab)
  /\ notified = <<>>
  /\ download = NoFile

NextAwait ==
  \/ TradeStatistics_loadData
  \/ LivePositions_loadPositions
  \/ LivePositions_interval
  \/ LivePositions_setAutoRefresh
  \/ AwaitEvent

SpecAwait == InitAwait /\ [][NextAwait]_vars

\* The whale view with its cards: the list is loaded and refreshed, the
\* user expands and collapses cards, and the position fetches settle.
InitWhale ==
  /\ Mounted("whales")
  /\ selectedWallets = <<>>
  /\ lastOp = Op("mount", "whales")
  /\ notified = <<>>
  /\ download = NoFile

NextWhale ==
  \/ WhaleDetection_loadWhales
  \/ WhaleDetection_loadWhales_resolved
  \/ WhaleDetection_loadWhales_rejected
  \/ CardEvent

SpecWhale == InitWhale /\ [][NextWhale]_vars

\* The refresh life cycle under tab switches: every trigger of a load, every
\* way its fetch settles, and the controls that start or stop loads; nothing
\* is selected.
Settle ==
  \/ TopTraders_loadTraders_resolved
  \/ TopTraders_loadTraders_rejected
  \/ WhaleDetection_loadWhales_resolved
  \/ WhaleDetection_loadWhales_rejected
  \/ TradeStatistics_loadData_resolved
  \/ TradeStatistics_loadData_rejected
  \/ LivePositions_loadPositions_resolved
  \/ LivePositions_loadPositions_rejected

Trigger ==
  \/ TopTraders_loadTraders
  \/ TopTraders_applyFilters
  \/ WhaleDetection_loadWhales
  \/ \E value \in MinBalances : WhaleDetection_setMinBalance(value)
  \/ TradeStatistics_loadData
  \/ LivePositions_loadPositions
  \/ LivePositions_interval
  \/ LivePositions_setAutoRefresh

NextLoad ==
  \/ \E tab \in Tabs : SetActiveTab(tab)
  \/ Trigger
  \/ Settle

SpecLoad == Init /\ [][NextLoad]_vars

\* every fetch the mounted view awaits settles: the provider answers or fails
SpecLoadFair == SpecLoad /\ WF_vars(Settle)

(* =============================== claims =============================== *)

\* two addresses are the same wallet
SameWallet(a, b) == toLowerCase(a) = toLowerCase(b)

\* the item list a select-all of the mounted view iterates over
SelectAllItems ==
  CASE activeTab = "traders"    -> AddressesOf(traders)
    [] activeTab = "whales"     -> AddressesOf(whales)
    [] activeTab = "statistics" -> AddressesOf(getCurrentData(tradeStats, statsTab))
    [] activeTab = "live"       -> <<>>

\* the step is an event that ran the handler `name`
Ran(name) == lastOp'.op = name

\* the step is a view event that may call onSelectWallet
RanSelect == Ran("toggle") \/ Ran("selectAll")

\* the entries the step appended to the aggregate list
Appended == SubSeq(selectedWallets', Len(selectedWallets) + 1, Len(selectedWallets'))

\* the aggregate list keeps its entries, in place, and may grow at its end
KeepsEntries ==
  /\ Len(selectedWallets') >= Len(selectedWallets)
  /\ SubSeq(selectedWallets', 1, Len(selectedWallets)) = selectedWallets

\* C1: the aggregate list holds at most one entry per address, compared
\* case-insensitively, in every reachable state.
C1_AtMostOneEntryPerAddress ==
  \A i, j \in 1..Len(selectedWallets) :
    i # j => ~SameWallet(selectedWallets[i].address, selectedWallets[j].address)

C3_UnionInEveryView ==
  [][Ran("selectAll") => selected' = selected \cup Range(SelectAllItems)]_vars

\* C3 as amended: after selectAllVisible of the statistics view the selection
\* set is its previous contents united with the addresses of the items; after
\* selectAll of the leaderboard or whale view it is exactly the set of the
\* items' addresses.
C3_UnionOrReplace ==
  [][Ran("selectAll") =>
       IF activeTab = "statistics"
         THEN selected' = selected \cup Range(SelectAllItems)
         ELSE selected' = Range(SelectAllItems)]_vars

\* selectAllVisible has kept an address that the displayed list no longer shows
C3_Witness ==
  /\ lastOp.op = "selectAll"
  /\ activeTab = "statistics"
  /\ \E a \in selected : a \notin Range(SelectAllItems)

\* C4: while only toggles have changed the selection set of the mounted
\* view, an address is selected exactly when it was toggled an odd number of
\* times.
C4_ToggleParity ==
  onlyToggles => \A a \in Addresses : (a \in selected) <=> (toggleParity[a] = 1)

\* an address was toggled back off while another one stays selected
C4_Witness ==
  /\ onlyToggles
  /\ lastOp.op = "toggle"
  /\ lastOp.arg \notin selected
  /\ selected # {}

\* C5: a toggle of an absent address adds it and calls onSelectWallet once
\* with it; a toggle of a present address removes it and calls nothing; no
\* view event calls onSelectWallet for an address it leaves unselected.
C5_ToggleNotifiesOnAddOnly ==
  [][/\ Ran("toggle") =>
          IF lastOp'.arg \in selected
            THEN selected' = selected \ {lastOp'.arg} /\ notified' = <<>>
            ELSE selected' = selected \cup {lastOp'.arg}
                 /\ notified' = <<lastOp'.arg>>
     /\ \A a \in Range(notified') : a \in selected']_vars

\* a toggle has removed an address whose selection had been announced
C5_Witness ==
  /\ lastOp.op = "toggle"
  /\ lastOp.arg \notin selected
  /\ notified = <<>>
  /\ \E i \in 1..Len(selectedWallets) : selectedWallets[i].address = lastOp.arg

\* C6: deselectAll empties the selection set, calls onSelectWallet zero
\* times and leaves the aggregate list unchanged.
C6_DeselectAllIsSilent ==
  [][Ran("deselectAll") =>
       /\ selected' = {}
       /\ notified' = <<>>
       /\ selectedWallets' = selectedWallets]_vars

\* deselectAll has run over a non-empty aggregate list
C6_Witness ==
  /\ lastOp.op = "deselectAll"
  /\ selected = {}
  /\ selectedWallets # <<>>

\* C7: an add whose address matches an existing entry leaves the list
\* unchanged.  The entries of a view event are added one call after the
\* other, so an appended entry matches neither an entry the list held before
\* the event nor an entry appended before it.
C7_MatchingAddIsNoOp ==
  [][RanSelect =>
       /\ KeepsEntries
       /\ \A j \in Len(selectedWallets) + 1..Len(selectedWallets') :
            \A i \in 1..j - 1 :
              ~SameWallet(selectedWallets'[i].address, selectedWallets'[j].address)]_vars

\* the calls of a view event whose address matches no entry the list held
\* when the event began, as the entries they append
RECURSIVE NewEntries(_, _, _)
NewEntries(wallets, addresses, source) ==
  IF addresses = <<>> THEN <<>>
  ELSE IF \E i \in 1..Len(wallets) : SameWallet(wallets[i].address, Head(addresses))
         THEN NewEntries(wallets, Tail(addresses), source)
         ELSE <<[address |-> Head(addresses), source |-> source]>>
                \o NewEntries(wallets, Tail(addresses), source)

\* C8: an add whose address matches no existing entry appends exactly one
\* entry, with the address as given and the label of the calling view, at the
\* end of the list; the entries already present keep their values and order.
C8_NewAddAppendsOne ==
  [][RanSelect =>
       /\ KeepsEntries
       /\ Appended = NewEntries(selectedWallets, notified', SourceOf(activeTab))]_vars

\* a select-all has appended an entry behind the entry of another view
C8_Witness ==
  /\ lastOp.op = "selectAll"
  /\ Len(selectedWallets) >= 2
  /\ Len(notified) >= 1
  /\ selectedWallets[Len(selectedWallets)].address = notified[Len(notified)]
  /\ selectedWallets[Len(selectedWallets)].source = SourceOf(activeTab)
  /\ selectedWallets[1].source # SourceOf(activeTab)

\* the positions of the entries that do not match `address`
KeptPositions(wallets, address) ==
  {i \in 1..Len(wallets) : ~SameWallet(wallets[i].address, address)}

\* the k-th smallest element of a set of positions
Nth(kept, k) ==
  CHOOSE i \in kept : Cardinality({j \in kept : j < i}) = k - 1

\* C9: remove(address) deletes every entry that matches the address
\* case-insensitively and keeps the others in their order; without a match
\* the list is unchanged.
C9_RemoveDeletesMatches ==
  [][Ran("removeWallet") =>
       LET kept == KeptPositions(selectedWallets, lastOp'.arg)
       IN  /\ Len(selectedWallets') = Cardinality(kept)
           /\ \A k \in 1..Len(selectedWallets') :
                selectedWallets'[k] = selectedWallets[Nth(kept, k)]
           /\ kept = 1..Len(selectedWallets) => selectedWallets' = selectedWallets]_vars

\* remove has deleted the entry of an address that is selected in the mounted
\* view, and has kept another entry
C9_Witness ==
  /\ lastOp.op = "removeWallet"
  /\ lastOp.arg \in selected
  /\ \A i \in 1..Len(selectedWallets) :
       ~SameWallet(selectedWallets[i].address, lastOp.arg)
  /\ selectedWallets # <<>>

\* C10: export on an empty list emits no file, for every format, and changes
\* no state.
C10_EmptyExportIsNoOp ==
  [][Ran("saveWalletsToFile") /\ selectedWallets = <<>> =>
       /\ download' = NoFile
       /\ UNCHANGED << appVars, dataVars, loadVars, selVars >>]_vars

\* export has run on an empty list
C10_Witness ==
  /\ lastOp.op = "saveWalletsToFile"
  /\ lastOp.arg \in Formats
  /\ selectedWallets = <<>>
  /\ download = NoFile

\* the step is saveWalletsToFile(format) on a list with entries
Exported(format) ==
  /\ Ran("saveWalletsToFile")
  /\ lastOp'.arg = format
  /\ selectedWallets # <<>>

\* the addresses of the entries as lines of text: every address but the
\* first follows a newline
RECURSIVE AddressLines(_)
AddressLines(wallets) ==
  IF Len(wallets) = 1 THEN wallets[1].address
  ELSE AddressLines(SubSeq(wallets, 1, Len(wallets) - 1))
         \o "\n" \o wallets[Len(wallets)].address

\* C11: export("txt") of a list with entries emits exactly the addresses of
\* the entries, in list order and as stored, separated by single newlines:
\* no header, no source label, no newline at the end.
C11_TxtIsAddressLines ==
  [][Exported("txt") => download'.content = AddressLines(selectedWallets)]_vars

\* the txt export of the entries 0xAB and 0xCD is the text "0xAB\n0xCD"
C11_Witness ==
  /\ lastOp.op = "saveWalletsToFile"
  /\ lastOp.arg = "txt"
  /\ AddressesOf(selectedWallets) = <<"0xAB", "0xCD">>
  /\ download.content = "0xAB\n0xCD"

\* the positions of the double quotes of a text
QuotePositions(text) == {i \in 1..Len(text) : SubSeq(text, i, i) = "\""}

\* the position of the first double quote at or after position i
RECURSIVE NextQuote(_, _)
NextQuote(text, i) ==
  IF SubSeq(text, i, i) = "\"" THEN i ELSE NextQuote(text, i + 1)

\* the quoted strings of a JSON text, in order: its keys and string values.
\* A quote opens a string when the number of quotes up to it is odd.
QuotedStrings(text) ==
  LET quotes == QuotePositions(text)
      Rank(i) == Cardinality({j \in quotes : j <= i})
      found == { <<(Rank(i) + 1) \div 2,
                   SubSeq(text, i + 1, NextQuote(text, i + 1) - 1)>> :
                   i \in {q \in quotes : Rank(q) % 2 = 1} }
  IN  [k \in 1..Cardinality(found) |-> (CHOOSE f \in found : f[1] = k)[2]]

\* the keys and values of a list of {address, source} pairs, in order
PairStrings(wallets) ==
  [k \in 1..4 * Len(wallets) |->
     LET w == wallets[(k + 3) \div 4]
     IN  CASE k % 4 = 1 -> "address"
           [] k % 4 = 2 -> w.address
           [] k % 4 = 3 -> "source"
           [] k % 4 = 0 -> w.source]

\* C12: export("json") of a list with entries emits the whole list, in list
\* order, each entry as the two fields address and source and nothing else.
C12_JsonIsTheList ==
  [][Exported("json") =>
       QuotedStrings(download'.content) = PairStrings(selectedWallets)]_vars

\* the json export of two entries that two views selected
C12_Witness ==
  /\ lastOp.op = "saveWalletsToFile"
  /\ lastOp.arg = "json"
  /\ Len(selectedWallets) = 2
  /\ selectedWallets[1].source # selectedWallets[2].source
  /\ Len(QuotedStrings(download.content)) = 8

\* the step starts a load of the mounted view: a button, the threshold
\* select or the timer called loadTraders / loadWhales / loadData /
\* loadPositions
RanStart ==
  lastOp'.op \in {"loadTraders", "loadWhales", "loadData", "loadPositions"}

\* the step resumes a load whose fetch resolved
RanResolved ==
  lastOp'.op \in {"loadTraders.resolved", "loadWhales.resolved",
                  "loadData.resolved", "loadPositions.resolved"}

\* the step resumes a load whose fetch rejected
RanRejected ==
  lastOp'.op \in {"loadTraders.rejected", "loadWhales.rejected",
                  "loadData.rejected", "loadPositions.rejected"}

\* C13: a load that starts, on mount or by a trigger, has set loading when
\* its fetch is awaited; when a fetch has settled, resolved or rejected,
\* loading is false; and if every fetch settles, loading becomes false.
C13_LoadingLifecycle ==
  /\ [][/\ RanStart \/ Ran("mount") => loading' /\ pending' # <<>>
        /\ RanResolved \/ RanRejected => ~loading']_vars
  /\ loading ~> ~loading

\* a refresh has failed in a view that had loaded: loading is cleared
C13_Witness ==
  /\ lastOp.op = "loadWhales.rejected"
  /\ whales # <<>>
  /\ pending = <<>>
  /\ ~loading

\* the data the mounted view has stored
Data ==
  CASE activeTab = "traders"    -> traders
    [] activeTab = "whales"     -> whales
    [] activeTab = "statistics" -> tradeStats
    [] activeTab = "live"       -> positions

\* C14: when a fetch fails, the data an earlier fetch stored is unchanged
\* after the failure is handled, in every view.
C14_FailureKeepsData ==
  [][RanRejected => UNCHANGED << traders, whales, tradeStats, positions >>]_vars

\* a refresh has failed in a view that shows the list of an earlier load
C14_Witness ==
  /\ lastOp.op = "loadTraders.rejected"
  /\ traders # <<>>
  /\ error # NoError

C16_SuccessClearsError ==
  [][Ran("loadTraders.resolved") \/ Ran("loadWhales.resolved") =>
       /\ Data' = lastOp'.result
       /\ error' = NoError]_vars

\* C17: a load that starts leaves the loads in flight as they are, each
\* settles on its own, and a fetch that resolves stores its result whether or
\* not a load started after it has settled before: the view shows the result
\* that arrived last.
C17_LastArrivalWins ==
  [][/\ RanStart => pending' = Append(pending, FALSE)
     /\ RanResolved \/ RanRejected => Len(pending') = Len(pending) - 1
     /\ RanResolved => Data' = lastOp'.result]_vars

\* the older of two overlapping loads has resolved last, and its list is the
\* one the view shows
C17_Witness ==
  /\ lastOp.op \in {"loadTraders.resolved", "loadPositions.resolved"}
  /\ lastOp.stale
  /\ pending = <<>>
  /\ Data = lastOp.result
  /\ Data # <<>>

\* C18 as claimed: at most one load of the mounted view is in flight.
C18_OneLoadInFlight == Len(pending) <= 1

\* C18 as amended: the Refresh button starts a load only while loading is
\* false; no other trigger is held back.
C18_RefreshWaitsForLoading ==
  [][RanStart /\ lastOp'.arg = "Refresh" => ~loading]_vars

\* the Refresh button has started a load while an earlier load, which another
\* load overtook, is still in flight
C18_Witness ==
  /\ lastOp.op \in {"loadTraders", "loadWhales", "loadPositions"}
  /\ lastOp.arg = "Refresh"
  /\ pending = <<TRUE, FALSE>>

\* C19: a view is mounted with loading set and exactly one load in flight,
\* at the start and every time a tab switch mounts a view.
C19_MountStartsOneLoad ==
  /\ loading = TRUE /\ Len(pending) = 1
  /\ [][Ran("mount") => loading' /\ Len(pending') = 1]_vars

\* a tab switch has mounted the live view: it is loading and shows nothing yet
C19_Witness ==
  /\ lastOp.op = "mount"
  /\ activeTab = "live"
  /\ loading
  /\ Len(pending) = 1
  /\ positions = <<>>

\* C20: at most one interval timer is active, and one is active exactly
\* while the live view is mounted with auto-refresh checked; the timer starts
\* a load only then.
C20_TimerClearedWhenOff ==
  [][/\ intervals' <= 1
     /\ intervals' = 1 <=> activeTab' = "live" /\ autoRefresh'
     /\ RanStart /\ lastOp'.arg = "interval" =>
          activeTab = "live" /\ autoRefresh]_vars

\* auto-refresh was switched off while a load is in flight: the timer is
\* cleared and the fetch is still awaited
C20_Witness ==
  /\ lastOp.op = "setAutoRefresh"
  /\ ~autoRefresh
  /\ intervals = 0
  /\ pending # <<>>


\* C21: in the live-positions view, unchecking auto-refresh while a load is
\* in flight leaves that load in flight and loading as it is; the load can
\* still resolve, and when it does its positions are stored, lastUpdate is
\* set and loading becomes false, as with auto-refresh checked.
C21_DisablingKeepsLoad ==
  /\ [](activeTab = "live" /\ ~autoRefresh /\ pending # <<>>
          => ENABLED LivePositions_loadPositions_resolved)
  /\ [][/\ Ran("setAutoRefresh") => UNCHANGED << pending, frames, loading >>
        /\ Ran("loadPositions.resolved") /\ ~autoRefresh =>
             /\ positions' = lastOp'.result
             /\ lastUpdate' \in Times
             /\ lastUpdate' >= lastUpdate
             /\ ~loading'
             /\ Len(pending') = Len(pending) - 1]_vars

\* a load has resolved and stored a position while auto-refresh is off and
\* no timer is left
C21_Witness ==
  /\ lastOp.op = "loadPositions.resolved"
  /\ ~autoRefresh
  /\ intervals = 0
  /\ positions # <<>>
  /\ positions = lastOp.result
  /\ ~loading


\* C22: no event of a view removes or changes an entry of the aggregate
\* list: after a toggle, a select-all, a deselect-all, a refresh, a load that
\* resolves, or a tab switch that unmounts the view, the list still starts
\* with the entries it had; only removeWallet and clearAllWallets drop one.
C22_ViewsOnlyAdd ==
  [][~(Ran("removeWallet") \/ Ran("clearAllWallets")) => KeepsEntries]_vars

\* an address was toggled off in a view, and the two entries the aggregate
\* list holds are still there
C22_Witness ==
  /\ lastOp.op = "toggle"
  /\ lastOp.arg \notin selected
  /\ notified = <<>>
  /\ Len(selectedWallets) = 2
  /\ \E i \in 1..2 : selectedWallets[i].address = lastOp.arg


\* the step is a change of one of the four filter controls
RanFilterControl ==
  Ran("setFilterType") \/ Ran("setSortBy") \/ Ran("setMinPnl") \/ Ran("setMaxResults")

C24_SelectionDiesWithView ==
  /\ [](lastOp.op = "mount" => selected = {})
  /\ [][Ran("mount") => selectedWallets' = selectedWallets]_vars

\* the user has come back to a view in which a wallet had been selected:
\* its entry is on the aggregate list and nothing is selected in the view
C24_Witness ==
  /\ lastOp.op = "mount"
  /\ selected = {}
  /\ \E i \in 1..Len(selectedWallets) :
       selectedWallets[i].source = SourceOf(activeTab)


\* C25, as claimed: in every view, loading = false implies that no fetch of
\* the view is still unsettled; equivalently, loading is true while a load is
\* in flight.
C25_InFlightImpliesLoading ==
  pending # <<>> => loading = TRUE

\* C25, as the code has it: loading is a flag, not a count.  It is raised
\* by every start of a load and cleared by every settlement, so loading =
\* true implies a load in flight, and the first of several overlapping
\* loads to settle clears loading while the others are still in flight.
C25_LoadingImpliesInFlight ==
  /\ [](loading = TRUE => pending # <<>>)
  /\ [][/\ RanStart => loading' = TRUE
        /\ RanResolved \/ RanRejected => loading' = FALSE
        /\ loading' # loading =>
             RanStart \/ RanResolved \/ RanRejected \/ Ran("mount")]_vars

\* one of two overlapping loads has settled: the other is still in flight
\* and loading is false
C25_Witness ==
  /\ lastOp.op \in {"loadTraders.resolved", "loadWhales.resolved",
                    "loadPositions.resolved", "loadTraders.rejected",
                    "loadWhales.rejected", "loadPositions.rejected"}
  /\ Len(pending) = 1
  /\ loading = FALSE


\* C26, as claimed: in the whale view, when a fetch resolves and with it
\* every whale fetch has settled, none having failed since the last one was
\* issued, the list it stores is that of the fetch issued with the threshold
\* now selected.
C26_ListOfSelectedThreshold ==
  [][Ran("loadWhales.resolved") /\ pending' = <<>> /\ error' = NoError =>
       frames[1].minBalance = minBalance']_vars

\* C26, as the code has it: every whale fetch is issued with the threshold
\* selected by the event that starts it, and the list on display is that of
\* the fetch that resolved last.  It is the list for the selected threshold
\* if that fetch was not overtaken by one issued after it; a fetch issued
\* with an earlier threshold that resolves last leaves its list on display.
C26_ListOfLastResolved ==
  [][/\ Ran("loadWhales") => frames'[Len(frames')].minBalance = minBalance'
     /\ Ran("loadWhales.resolved") => whales' = lastOp'.result
     /\ Ran("loadWhales.resolved") /\ pending' = <<>> /\ ~lastOp'.stale =>
          frames[1].minBalance = minBalance']_vars

\* the threshold was changed during a load, and the load that was overtaken
\* has resolved last, with nothing failed: its list is on display
C26_Witness ==
  /\ lastOp.op = "loadWhales.resolved"
  /\ lastOp.stale
  /\ pending = <<>>
  /\ error = NoError
  /\ minBalance = LargestMinBalance
  /\ whales = lastOp.result
  /\ whales # <<>>


\* C27: in the statistics view tradeStats changes only in the step in which
\* the last fetch of a load resolves, all the fetches before it having
\* resolved, and then becomes the map of all the addresses fetched; a
\* resolved fetch that is not the last one, and a rejected fetch at any
\* point of the load, leave tradeStats as it was.
C27_AllOrNothing ==
  [][/\ Ran("loadData.await") \/ Ran("loadData.rejected") =>
          tradeStats' = tradeStats
     /\ tradeStats' # tradeStats => Ran("loadData.resolved")
     /\ Ran("loadData.resolved") =>
          \E k \in 1..Len(frames) :
            /\ frames' = Without(frames, k)
            /\ \/ /\ frames[k].awaits = 0
                  /\ tradeStats' = <<>>
               \/ /\ frames[k].awaits = Len(frames[k].addressesToFetch)
                  /\ frames[k].awaits >= 1
                  /\ tradeStats' =
                       StatsMapsFrom(frames[k].addressesToFetch, <<>>)]_vars

\* a load that had already built a part of its map failed at a later
\* fetchUserTrades: the map of the load before it is still on display
C27_Witness ==
  /\ lastOp.op = "loadData.rejected"
  /\ lastOp.arg = "fetchUserTrades"
  /\ lastOp.result # <<>>
  /\ tradeStats # <<>>
  /\ \E i \in 1..Len(lastOp.result) :
       \A j \in 1..Len(tradeStats) : tradeStats[j] # lastOp.result[i]


\* the loads that await their second fetch
AwaitingSecond(fs) == Cardinality({i \in 1..Len(fs) : fs[i].awaits = 1})

C28_OnePositionsFetchPerAddress ==
  /\ [](\A a \in Addresses :
          /\ positionFetches[a] <= 1
          /\ positionFetches[a] = 1 <=> a \in loadingPositions)
  /\ [][\A a \in Addresses :
          /\ positionFetches'[a] > positionFetches[a] =>
               /\ Ran("toggleExpandWhale")
               /\ lastOp'.arg = a
               /\ ~HasPositions(whalePositions, a)
          /\ (Ran("loadWhalePositions.resolved")
                 \/ Ran("loadWhalePositions.rejected")) /\ lastOp'.arg = a =>
               /\ a \notin loadingPositions'
               /\ positionFetches'[a] = positionFetches[a] - 1
          /\ Ran("loadWhalePositions.resolved") /\ lastOp'.arg = a =>
               HasPositions(whalePositions', a)]_vars

\* a card whose positions are stored was expanded again, while the fetch
\* for another card is in flight: no fetch was issued for it
C28_Witness ==
  /\ lastOp.op = "toggleExpandWhale"
  /\ expandedWhale = lastOp.arg
  /\ HasPositions(whalePositions, lastOp.arg)
  /\ positionFetches[lastOp.arg] = 0
  /\ \E a \in Addresses : positionFetches[a] = 1


\* the addresses of the entries a step has put on the aggregate list
AddedAddresses ==
  {selectedWallets'[i].address : i \in 1..Len(selectedWallets')}
    \ {selectedWallets[i].address : i \in 1..Len(selectedWallets)}

\* C29: removeWallet and clearAllWallets leave the selection set of the
\* mounted view as it is, so an address removed from the aggregate list
\* stays selected in the view; an address enters the aggregate list only in
\* a step in which a view notified it.
C29_PanelLeavesSelection ==
  [][/\ Ran("removeWallet") \/ Ran("clearAllWallets") =>
          UNCHANGED << selected, toggleParity, onlyToggles >>
     /\ AddedAddresses \subseteq Range(notified')
     /\ AddedAddresses # {} => RanSelect]_vars

\* the aggregate list was cleared while two wallets are selected in the
\* mounted view: both are still selected and neither is on the list
C29_Witness ==
  /\ lastOp.op = "clearAllWallets"
  /\ selectedWallets = <<>>
  /\ Cardinality(selected) = 2

=============================================================================
